---- MODULE Spec2Model ----
(***************************************************************************)
(* Model of IELTS.py: the proficiency scorer analyze_transcription, the    *)
(* fail-soft transcriber transcribe_audio, and the two Tk button handlers  *)
(* of IELTSApp (record_and_transcribe, play_transcription) together with   *)
(* the event pumping done by update_status through root.update().          *)
(*                                                                         *)
(* Python floats are modelled as exact rationals <<n, d>>.  On every doc   *)
(* of the family below (up to 34 alphabetic tokens, 9 distinct lemmas)     *)
(* the comparisons the code makes (x < 5, min(9, x)) have the same outcome *)
(* in IEEE doubles and in exact arithmetic.                                *)
(***************************************************************************)
EXTENDS Integers, Sequences, FiniteSets, TLC

(***************************************************************************)
(* Bounds of the model.                                                    *)
(***************************************************************************)
MaxVerb == 15       \* VERB tokens in a doc
MaxAdj == 15        \* ADJ tokens in a doc
MaxLemmas == 8      \* distinct lemmas among the content tokens
MaxSent == 2        \* sentences in a doc
AppMaxCount == 1    \* VERB tokens of the docs used by the GUI runs
MaxDepth == 2       \* handler invocations nested through root.update()

(***************************************************************************)
(* Strings: str.startswith, substring test, " ".join.                      *)
(***************************************************************************)
StartsWith(s, p) == Len(s) >= Len(p) /\ SubSeq(s, 1, Len(p)) = p

Contains(s, sub) ==
    \E i \in 1..(Len(s) - Len(sub) + 1) : SubSeq(s, i, i + Len(sub) - 1) = sub

RECURSIVE Join(_, _)
Join(sep, parts) ==
    IF Len(parts) = 0 THEN ""
    ELSE IF Len(parts) = 1 THEN parts[1]
    ELSE parts[1] \o sep \o Join(sep, Tail(parts))

(***************************************************************************)
(* Exact rationals standing for the floats of the scoring arithmetic.      *)
(***************************************************************************)
RECURSIVE GCD(_, _)
GCD(a, b) == IF b = 0 THEN a ELSE GCD(b, a % b)

Rat(n, d) == LET g == GCD(n, d) IN <<n \div g, d \div g>>
RInt(x) == <<x, 1>>
RAdd(a, b) == Rat(a[1] * b[2] + b[1] * a[2], a[2] * b[2])
RMul(a, b) == Rat(a[1] * b[1], a[2] * b[2])
RDivInt(a, k) == Rat(a[1], a[2] * k)
RLt(a, b) == a[1] * b[2] < b[1] * a[2]
RLe(a, b) == a[1] * b[2] <= b[1] * a[2]
RMin(a, b) == IF RLt(b, a) THEN b ELSE a

(***************************************************************************)
(* The messages of the program.                                            *)
(***************************************************************************)
MsgCouldNot == "Could not understand the audio clearly. Please try speaking more clearly."
MsgUnavailable == "Transcription service unavailable. Please check your internet connection."
MsgErrorProcessing(e) == "Error processing audio: " \o e
MsgGuardFeedback == "Unable to analyze - transcription failed"
MsgFluency == "Try to speak more fluently with longer sentences."
MsgGrammar == "Focus on using varied sentence structures and grammar."
MsgVocabulary == "Try to use more diverse vocabulary and descriptive words."
MsgGoodJob == "Good job! Keep practicing to maintain your level."

(***************************************************************************)
(* The annotator nlp = spacy.load(...).  A doc is what nlp(text) returns:  *)
(* its tokens (is_alpha, pos_, lemma_, is_stop) and its sentences.  The    *)
(* annotator is an external collaborator, so its output is drawn from a    *)
(* bounded family of docs: v VERB, n NOUN and a ADJ tokens whose lemmas    *)
(* cycle through l distinct words in alternating capitalisation, d DET     *)
(* stop words, p numerals (not alphabetic), and sn sentences.              *)
(***************************************************************************)
NoDoc == [tokens |-> <<>>, sents |-> <<>>]

Lemma(i, cap) == (IF cap THEN "W" ELSE "w") \o ToString(i)

\* str.lower() on the lemmas of the family (capital only in front)
Lower(s) == IF StartsWith(s, "W") THEN "w" \o SubSeq(s, 2, Len(s)) ELSE s

MkDoc(v, n, a, d, p, l, sn) ==
    [tokens |-> SubSeq(
        [i \in 1..(v + n + a + d + p) |->
            IF i <= v + n + a
            THEN [is_alpha |-> TRUE,
                  pos_ |-> IF i <= v THEN "VERB"
                           ELSE IF i <= v + n THEN "NOUN" ELSE "ADJ",
                  lemma_ |-> Lemma(((i - 1) % l) + 1, i % 2 = 0),
                  is_stop |-> FALSE]
            ELSE IF i <= v + n + a + d
            THEN [is_alpha |-> TRUE, pos_ |-> "DET",
                  lemma_ |-> "the", is_stop |-> TRUE]
            ELSE [is_alpha |-> FALSE, pos_ |-> "NUM",
                  lemma_ |-> ToString(i), is_stop |-> FALSE]],
        1, v + n + a + d + p),
     sents |-> SubSeq([k \in 1..sn |-> k], 1, sn)]

Max2(x, y) == IF x >= y THEN x ELSE y

\* The family is indexed by the tuples <<v, n, a, d, p, l, sn>>: up to mv
\* verbs and ma adjectives, with or without a noun, a stop word and a
\* numeral.  Distinct tuples of DocParams give distinct docs.
DocParams(mv, ma, ml, msn) ==
    { r \in (0..mv) \X (0..1) \X (0..ma) \X (0..1) \X (0..1)
            \X (1..ml) \X (0..msn) :
        /\ r[1] + r[2] + r[3] + r[4] + r[5] > 0
        /\ r[6] <= Max2(1, r[1] + r[2] + r[3]) }

DocOf(q) == MkDoc(q[1], q[2], q[3], q[4], q[5], q[6], q[7])

Letters == {"a", "b", "c", "d", "e", "f", "g", "h", "i", "j", "k", "l", "m",
            "n", "o", "p", "q", "r", "s", "t", "u", "v", "w", "x", "y", "z",
            "A", "B", "C", "D", "E", "F", "G", "H", "I", "J", "K", "L", "M",
            "N", "O", "P", "Q", "R", "S", "T", "U", "V", "W", "X", "Y", "Z"}

HasLetter(text) == \E i \in 1..Len(text) : SubSeq(text, i, i) \in Letters

AlphaTokens(doc) == {i \in DOMAIN doc.tokens : doc.tokens[i].is_alpha}

\* nlp(text), as the indices of the docs it may return: a text without any letter has no alphabetic token; the worded
\* texts used here consist of plain words, so they have at least one.
nlp(text, params) ==
    { q \in params : HasLetter(text) <=> AlphaTokens(DocOf(q)) # {} }

(***************************************************************************)
(* analyze_transcription                                                   *)
(***************************************************************************)
Return(v, called) == [kind |-> "return", value |-> v, nlp_called |-> called]
Raise(e, called) == [kind |-> "raise", value |-> e, nlp_called |-> called]

Threshold == 5
MaxScore == 9

\* mutant: the guard forgets the "Error" prefix
AnalyzeGuard_NoErrorPrefix(transcription) ==
    \/ transcription = ""
    \/ StartsWith(transcription, "Could not")

AnalyzeGuard(transcription) ==
    \/ transcription = ""
    \/ StartsWith(transcription, "Could not")
    \/ StartsWith(transcription, "Error")

GuardReport ==
    [fluency |-> RInt(0),
     grammar_score |-> RInt(0),
     vocabulary_richness |-> RInt(0),
     total_score |-> RInt(0),
     feedback |-> MsgGuardFeedback]

word_count(doc) == Cardinality(AlphaTokens(doc))

sentence_count(doc) == Len(doc.sents)

\* Counter([token.pos_ for token in doc if token.is_alpha])
pos_counts(doc) ==
    [t \in {doc.tokens[i].pos_ : i \in AlphaTokens(doc)} |->
        Cardinality({i \in AlphaTokens(doc) : doc.tokens[i].pos_ = t})]

CounterGet(c, k) == IF k \in DOMAIN c THEN c[k] ELSE 0

unique_words(doc) ==
    Cardinality({Lower(doc.tokens[i].lemma_) :
                    i \in {j \in AlphaTokens(doc) : ~doc.tokens[j].is_stop}})

vocabulary_richness(uw, wc) == IF wc > 0 THEN Rat(uw, wc) ELSE RInt(0)

avg_words_per_sentence(wc, sc) == IF sc > 0 THEN Rat(wc, sc) ELSE RInt(0)

\* mutant: the fluency score is not clamped to 9
fluency_score_NoClamp(wc, avg) == RAdd(Rat(wc, 10), RDivInt(avg, 5))

fluency_score(wc, avg) ==
    RMin(RInt(MaxScore), RAdd(Rat(wc, 10), RDivInt(avg, 5)))

\* evaluated only when wc > 0 (see analyze_transcription)
grammar_score(grammar_variety, verb_count, noun_count, wc) ==
    RMin(RInt(MaxScore),
         RAdd(Rat(grammar_variety, 2),
              RMul(Rat(verb_count + noun_count, wc), RInt(9))))

\* evaluated only when wc > 0 (see analyze_transcription)
vocabulary_score(richness, adj_count, wc) ==
    RMin(RInt(MaxScore),
         RAdd(RMul(richness, RInt(9)), RMul(Rat(adj_count, wc), RInt(3))))

total_score(f, g, v) == RDivInt(RAdd(RAdd(f, g), v), 3)

\* mutant: remarks are triggered by <= 5 instead of < 5
feedback_parts_AtMost(f, g, v) ==
    LET parts == (IF RLe(f, RInt(Threshold)) THEN <<MsgFluency>> ELSE <<>>)
              \o (IF RLe(g, RInt(Threshold)) THEN <<MsgGrammar>> ELSE <<>>)
              \o (IF RLe(v, RInt(Threshold)) THEN <<MsgVocabulary>> ELSE <<>>)
    IN  IF parts = <<>> THEN <<MsgGoodJob>> ELSE parts

feedback_parts(f, g, v) ==
    LET parts == (IF RLt(f, RInt(Threshold)) THEN <<MsgFluency>> ELSE <<>>)
              \o (IF RLt(g, RInt(Threshold)) THEN <<MsgGrammar>> ELSE <<>>)
              \o (IF RLt(v, RInt(Threshold)) THEN <<MsgVocabulary>> ELSE <<>>)
    IN  IF parts = <<>> THEN <<MsgGoodJob>> ELSE parts

ScoredReport(doc) ==
    LET wc == word_count(doc)
        sc == sentence_count(doc)
        pc_ == pos_counts(doc)
        f == fluency_score(wc, avg_words_per_sentence(wc, sc))
        g == grammar_score(Cardinality(DOMAIN pc_), CounterGet(pc_, "VERB"),
                           CounterGet(pc_, "NOUN"), wc)
        v == vocabulary_score(vocabulary_richness(unique_words(doc), wc),
                              CounterGet(pc_, "ADJ"), wc)
    IN  [fluency |-> f,
         grammar_score |-> g,
         vocabulary_richness |-> v,
         total_score |-> total_score(f, g, v),
         word_count |-> wc,
         sentence_count |-> sc,
         feedback |-> Join(" ", feedback_parts(f, g, v))]

\* doc is what nlp(transcription) returns if it is called.  The divisions by
\* word_count on lines 104-105 are unguarded.
analyze_transcription(transcription, doc) ==
    IF AnalyzeGuard(transcription) THEN Return(GuardReport, FALSE)
    ELSE IF word_count(doc) = 0 THEN Raise("division by zero", TRUE)
    ELSE Return(ScoredReport(doc), TRUE)

(***************************************************************************)
(* transcribe_audio, as a function of what the audio file reader, the      *)
(* online recognizer and the offline recognizer do when called.            *)
(***************************************************************************)
Ok(text) == [kind |-> "ok", text |-> text]
Fails(kind, msg) == [kind |-> kind, text |-> msg]

\* mutant: the offline recognizer is also tried after UnknownValueError
transcribe_audio_FallbackAlways(file, google, sphinx) ==
    IF file.kind # "ok"
    THEN [kind |-> "return", value |-> MsgErrorProcessing(file.text),
          calls |-> <<"AudioFile">>]
    ELSE IF google.kind = "ok"
    THEN [kind |-> "return", value |-> google.text,
          calls |-> <<"AudioFile", "recognize_google">>]
    ELSE IF google.kind \in {"UnknownValueError", "RequestError"}
    THEN [kind |-> "return",
          value |-> IF sphinx.kind = "ok" THEN sphinx.text ELSE MsgUnavailable,
          calls |-> <<"AudioFile", "recognize_google", "recognize_sphinx">>]
    ELSE [kind |-> "return", value |-> MsgErrorProcessing(google.text),
          calls |-> <<"AudioFile", "recognize_google">>]

transcribe_audio(file, google, sphinx) ==
    IF file.kind # "ok"
    THEN [kind |-> "return", value |-> MsgErrorProcessing(file.text),
          calls |-> <<"AudioFile">>]
    ELSE IF google.kind = "ok"
    THEN [kind |-> "return", value |-> google.text,
          calls |-> <<"AudioFile", "recognize_google">>]
    ELSE IF google.kind = "UnknownValueError"
    THEN [kind |-> "return", value |-> MsgCouldNot,
          calls |-> <<"AudioFile", "recognize_google">>]
    ELSE IF google.kind = "RequestError"
    THEN [kind |-> "return",
          value |-> IF sphinx.kind = "ok" THEN sphinx.text ELSE MsgUnavailable,
          calls |-> <<"AudioFile", "recognize_google", "recognize_sphinx">>]
    ELSE [kind |-> "return", value |-> MsgErrorProcessing(google.text),
          calls |-> <<"AudioFile", "recognize_google">>]

(***************************************************************************)
(* State.                                                                  *)
(***************************************************************************)
VARIABLES
    \* a single call of analyze_transcription (SpecScore)
    transcription,  \* argument of the analyze_transcription call under check
    doc,            \* what nlp returned to that call (NoDoc: not called)
    nlp_calls,      \* number of nlp(...) calls made
    result,         \* outcome of the call
    pc,             \* "call" before, "done" after
    \* the IELTSApp window (Spec)
    record_button,          \* state of self.record_button
    play_button,            \* state of self.play_button
    status_label,           \* text and fg of self.status_label
    transcription_text,     \* content of self.transcription_text
    feedback_text,          \* content of self.feedback_text
    current_transcription,  \* self.current_transcription
    music_busy,             \* pygame.mixer.music.get_busy()
    stack,                  \* handler invocations in progress, innermost last
    last_transcribe,        \* history: the latest transcribe_audio call
    last_analysis,          \* history: the latest analyze_transcription call
    last_tts                \* history: text of the latest text_to_speech call

scoreVars == <<transcription, doc, nlp_calls, result, pc>>
widgetVars == <<record_button, play_button, status_label, transcription_text,
                feedback_text>>
appVars == <<record_button, play_button, status_label, transcription_text,
             feedback_text, current_transcription, music_busy, stack,
             last_transcribe, last_analysis, last_tts>>
vars == <<transcription, doc, nlp_calls, result, pc, record_button,
          play_button, status_label, transcription_text, feedback_text,
          current_transcription, music_busy, stack, last_transcribe,
          last_analysis, last_tts>>

Docs == DocParams(MaxVerb, MaxAdj, MaxLemmas, MaxSent)

Transcripts ==
    {"", MsgCouldNot, MsgErrorProcessing("file not found"), "Errors happen",
     "hello world", "23"}

NoResult == [kind |-> "none", value |-> "", nlp_called |-> FALSE]

Status(text, fg) == [text |-> text, fg |-> fg]
None == <<>>

\* IELTSApp.__init__
InitApp ==
    /\ record_button = "normal"
    /\ play_button = "disabled"
    /\ status_label = Status("Ready to record", "blue")
    /\ transcription_text = ""
    /\ feedback_text = None
    /\ current_transcription = ""
    /\ music_busy = FALSE
    /\ stack = <<>>
    /\ last_transcribe = None
    /\ last_analysis = None
    /\ last_tts = None

InitScore ==
    /\ transcription \in Transcripts
    /\ doc = NoDoc
    /\ nlp_calls = 0
    /\ result = NoResult
    /\ pc = "call"
    /\ InitApp

Analyze ==
    /\ pc = "call"
    /\ \E q \in (IF AnalyzeGuard(transcription) THEN {<<>>}
                  ELSE nlp(transcription, Docs)) :
         /\ result' = analyze_transcription(transcription,
                           IF q = <<>> THEN NoDoc ELSE DocOf(q))
         /\ doc' = (IF result'.nlp_called THEN DocOf(q) ELSE doc)
         /\ nlp_calls' = nlp_calls + (IF result'.nlp_called THEN 1 ELSE 0)
    /\ pc' = "done"
    /\ UNCHANGED <<transcription, appVars>>

NextScore == Analyze

SpecScore == InitScore /\ [][NextScore]_vars

(***************************************************************************)
(* The window.  Tk runs the handlers on one thread, but update_status      *)
(* calls root.update(), which dispatches the pending events: a click on an *)
(* enabled button runs its command inside the handler that is pumping.     *)
(* stack holds the invocations in progress; the pc of a frame names the    *)
(* update_status call (or the playback loop) at which it is pumping.       *)
(***************************************************************************)
FileOutcomes == {Ok(""), Fails("error", "file not found")}
GoogleOutcomes ==
    {Ok("hello world"), Ok("23"), Fails("UnknownValueError", ""),
     Fails("RequestError", ""), Fails("error", "bad response")}
SphinxOutcomes == {Ok("hello world"), Fails("error", "")}

AppDocs ==
    { q \in DocParams(AppMaxCount, 0, 1, 1) : q[2] = 0 /\ q[4] = 0 /\ q[7] = 1 }

Frame(handler, at) ==
    [handler |-> handler, pc |-> at, transcription |-> "", tts_calls |-> 0]

Top == stack[Len(stack)]
Running(handler, at) ==
    Len(stack) > 0 /\ Top.handler = handler /\ Top.pc = at
SetTop(f) == [stack EXCEPT ![Len(stack)] = f]
Pop == SubSeq(stack, 1, Len(stack) - 1)

\* analysis.get('word_count', 0) and the like; the scores, printed with
\* one decimal, are left out of the modelled display
DictGet(d, k, default) == IF k \in DOMAIN d THEN d[k] ELSE default

update_feedback_display(analysis) ==
    [words |-> DictGet(analysis, "word_count", 0),
     sentences |-> DictGet(analysis, "sentence_count", 0),
     feedback |-> analysis.feedback]

\* the condition on line 293
PlayGuard(text) ==
    \/ text = ""
    \/ StartsWith(text, "Could not")
    \/ StartsWith(text, "Error")

\* gTTS refuses an empty text; every exception is caught and gives False
text_to_speech(text, backend_ok) == text # "" /\ backend_ok

\* mutant: the button is re-enabled at the end of the try block only
FinallyRecordButton_TryOnly(at) ==
    IF at = "complete" THEN "normal" ELSE "disabled"

\* the finally clause of record_and_transcribe, reached from pc "complete"
\* (the try block ended) or "error" (the except clause ran)
FinallyRecordButton(at) == "normal"

\* the record button is clicked: lines 258-259
ClickRecord ==
    /\ record_button = "normal"
    /\ Len(stack) < MaxDepth
    /\ record_button' = "disabled"
    /\ status_label' = Status("Recording... Speak now!", "red")
    /\ stack' = Append(stack, Frame("record", "recording"))
    /\ UNCHANGED <<scoreVars, play_button, transcription_text, feedback_text,
                   current_transcription, music_busy, last_transcribe,
                   last_analysis, last_tts>>

\* lines 262-265; a device error goes to the except clause, line 284
RecordAudio ==
    /\ Running("record", "recording")
    /\ \E device_ok \in BOOLEAN :
         IF device_ok
         THEN /\ status_label' = Status("Processing audio...", "orange")
              /\ stack' = SetTop([Top EXCEPT !.pc = "processing"])
         ELSE /\ status_label' = Status("Error: " \o "no input device", "red")
              /\ stack' = SetTop([Top EXCEPT !.pc = "error"])
    /\ UNCHANGED <<scoreVars, record_button, play_button, transcription_text,
                   feedback_text, current_transcription, music_busy,
                   last_transcribe, last_analysis, last_tts>>

\* lines 268-272
Transcribe ==
    /\ Running("record", "processing")
    /\ \E file \in FileOutcomes, google \in GoogleOutcomes,
          sphinx \in SphinxOutcomes :
         /\ last_transcribe' =
              [file |-> file, google |-> google, sphinx |-> sphinx,
               ret |-> transcribe_audio(file, google, sphinx)]
         /\ IF last_transcribe'.ret.kind = "return"
            THEN /\ current_transcription' = last_transcribe'.ret.value
                 /\ transcription_text' = last_transcribe'.ret.value
                 /\ status_label' = Status("Analyzing speech...", "orange")
                 /\ stack' = SetTop([Top EXCEPT
                                       !.pc = "analyzing",
                                       !.transcription = last_transcribe'.ret.value])
            ELSE /\ status_label' =
                      Status("Error: " \o last_transcribe'.ret.value, "red")
                 /\ stack' = SetTop([Top EXCEPT !.pc = "error"])
                 /\ UNCHANGED <<current_transcription, transcription_text>>
    /\ UNCHANGED <<scoreVars, record_button, play_button, feedback_text, music_busy,
                   last_analysis, last_tts>>

\* lines 275-281; a fault of the analysis goes to the except clause
AnalyzeAndDisplay ==
    /\ Running("record", "analyzing")
    /\ \E q \in (IF AnalyzeGuard(Top.transcription) THEN {<<>>}
                 ELSE nlp(Top.transcription, AppDocs)) :
         /\ last_analysis' =
              [input |-> Top.transcription,
               ret |-> analyze_transcription(Top.transcription,
                           IF q = <<>> THEN NoDoc ELSE DocOf(q))]
         /\ IF last_analysis'.ret.kind = "return"
            THEN /\ feedback_text' = update_feedback_display(last_analysis'.ret.value)
                 /\ play_button' = "normal"
                 /\ status_label' =
                      Status("Analysis complete! You can record again or play back.",
                             "green")
                 /\ stack' = SetTop([Top EXCEPT !.pc = "complete"])
            ELSE /\ status_label' =
                      Status("Error: " \o last_analysis'.ret.value, "red")
                 /\ stack' = SetTop([Top EXCEPT !.pc = "error"])
                 /\ UNCHANGED <<feedback_text, play_button>>
    /\ UNCHANGED <<scoreVars, record_button, transcription_text, current_transcription,
                   music_busy, last_transcribe, last_tts>>

\* lines 287-289, then the handler returns
RecordReturn ==
    /\ Len(stack) > 0
    /\ Top.handler = "record"
    /\ Top.pc \in {"complete", "error"}
    /\ record_button' = FinallyRecordButton(Top.pc)
    /\ stack' = Pop
    /\ UNCHANGED <<scoreVars, play_button, status_label, transcription_text,
                   feedback_text, current_transcription, music_busy,
                   last_transcribe, last_analysis, last_tts>>

\* the play button is clicked: lines 293-298
ClickPlay ==
    /\ play_button = "normal"
    /\ Len(stack) < MaxDepth
    /\ IF PlayGuard(current_transcription)
       THEN /\ status_label' = Status("No valid transcription to play back", "red")
            /\ stack' = Append(stack, Frame("play", "novalid"))
       ELSE /\ status_label' = Status("Generating audio...", "orange")
            /\ stack' = Append(stack, Frame("play", "generating"))
    /\ UNCHANGED <<scoreVars, record_button, play_button, transcription_text,
                   feedback_text, current_transcription, music_busy,
                   last_transcribe, last_analysis, last_tts>>

\* lines 301-302 and 314-315
Synthesize ==
    /\ Running("play", "generating")
    /\ last_tts' = <<current_transcription>>
    /\ \E backend_ok \in BOOLEAN :
         IF text_to_speech(current_transcription, backend_ok)
         THEN /\ status_label' = Status("Playing audio...", "blue")
              /\ stack' = SetTop([Top EXCEPT !.pc = "playing",
                                             !.tts_calls = @ + 1])
         ELSE /\ status_label' = Status("Failed to generate audio", "red")
              /\ stack' = SetTop([Top EXCEPT !.pc = "failed",
                                             !.tts_calls = @ + 1])
    /\ UNCHANGED <<scoreVars, record_button, play_button, transcription_text,
                   feedback_text, current_transcription, music_busy,
                   last_transcribe, last_analysis>>

\* lines 305-309; a mixer fault goes to the except clause, line 318
LoadAndPlay ==
    /\ Running("play", "playing")
    /\ \E mixer_ok \in BOOLEAN :
         IF mixer_ok
         THEN /\ music_busy' = TRUE
              /\ stack' = SetTop([Top EXCEPT !.pc = "loop"])
              /\ UNCHANGED status_label
         ELSE /\ status_label' = Status("Playback error: " \o "mixer", "red")
              /\ stack' = SetTop([Top EXCEPT !.pc = "playerr"])
              /\ UNCHANGED music_busy
    /\ UNCHANGED <<scoreVars, record_button, play_button, transcription_text,
                   feedback_text, current_transcription, last_transcribe,
                   last_analysis, last_tts>>

\* the mixer reaches the end of the audio
MusicEnds ==
    /\ music_busy
    /\ music_busy' = FALSE
    /\ UNCHANGED <<scoreVars, widgetVars, current_transcription, stack, last_transcribe,
                   last_analysis, last_tts>>

\* lines 309-313: the loop ends once the mixer is idle
PlaybackComplete ==
    /\ Running("play", "loop")
    /\ ~music_busy
    /\ status_label' = Status("Playback complete", "green")
    /\ stack' = SetTop([Top EXCEPT !.pc = "done"])
    /\ UNCHANGED <<scoreVars, record_button, play_button, transcription_text,
                   feedback_text, current_transcription, music_busy,
                   last_transcribe, last_analysis, last_tts>>

\* play_transcription returns (lines 295, 313, 315, 319)
PlayReturn ==
    /\ Len(stack) > 0
    /\ Top.handler = "play"
    /\ Top.pc \in {"novalid", "done", "failed", "playerr"}
    /\ stack' = Pop
    /\ UNCHANGED <<scoreVars, widgetVars, current_transcription, music_busy,
                   last_transcribe, last_analysis, last_tts>>

Init ==
    /\ InitApp
    /\ transcription = ""
    /\ doc = NoDoc
    /\ nlp_calls = 0
    /\ result = NoResult
    /\ pc = "done"

Next ==
    \/ ClickRecord
    \/ RecordAudio
    \/ Transcribe
    \/ AnalyzeAndDisplay
    \/ RecordReturn
    \/ ClickPlay
    \/ Synthesize
    \/ LoadAndPlay
    \/ MusicEnds
    \/ PlaybackComplete
    \/ PlayReturn

Spec == Init /\ [][Next]_vars

(***************************************************************************)
(* Claims about analyze_transcription, checked under SpecScore.            *)
(***************************************************************************)
Zero == <<0, 1>>
InRange(x) == RLe(RInt(0), x) /\ RLe(x, RInt(9))
AtLeast5(x) == RLe(RInt(5), x)

GuardedInput(t) ==
    t = "" \/ StartsWith(t, "Could not") \/ StartsWith(t, "Error")

\* C1: for a transcript that is empty or starts with "Could not" or "Error",
\* analyze_transcription returns the four scores 0 with the fixed failure
\* feedback, and nlp is not invoked.
C1_GuardZeroNoAnnotation ==
    (pc = "done" /\ GuardedInput(transcription)) =>
        /\ result.kind = "return"
        /\ result.value.fluency = Zero
        /\ result.value.grammar_score = Zero
        /\ result.value.vocabulary_richness = Zero
        /\ result.value.total_score = Zero
        /\ result.value.feedback = "Unable to analyze - transcription failed"
        /\ ~result.nlp_called
        /\ nlp_calls = 0
        /\ doc = NoDoc

C1_Witness ==
    /\ pc = "done"
    /\ transcription = "Errors happen"
    /\ result.kind = "return"
    /\ result.value.total_score = Zero
    /\ nlp_calls = 0

\* C3: for a non-empty, non-sentinel transcript whose annotation has no
\* alphabetic token, analyze_transcription returns (no division by zero) a
\* report whose ratio terms all contribute 0.
C3_NoDivisionByZero ==
    (pc = "done" /\ ~GuardedInput(transcription) /\ result.nlp_called
       /\ \A i \in DOMAIN doc.tokens : ~doc.tokens[i].is_alpha) =>
        /\ result.kind = "return"
        /\ result.value.fluency = Zero
        /\ result.value.grammar_score = Zero
        /\ result.value.vocabulary_richness = Zero

\* C4: with at least one alphabetic token, each of the fluency, grammar,
\* vocabulary and total scores returned lies in [0, 9].
C4_ScoresInRange ==
    (pc = "done" /\ result.nlp_called
       /\ \E i \in DOMAIN doc.tokens : doc.tokens[i].is_alpha) =>
        /\ result.kind = "return"
        /\ InRange(result.value.fluency)
        /\ InRange(result.value.grammar_score)
        /\ InRange(result.value.vocabulary_richness)
        /\ InRange(result.value.total_score)

\* 31 words in one sentence: 3.1 + 6.2 is clamped to 9
C4_Witness ==
    /\ pc = "done"
    /\ result.kind = "return"
    /\ result.nlp_called
    /\ Cardinality({i \in DOMAIN doc.tokens : doc.tokens[i].is_alpha}) = 31
    /\ Len(doc.sents) = 1
    /\ result.value.fluency = <<9, 1>>

\* C5: on a scored input the feedback is non-empty; it contains the
\* encouragement remark iff the three sub-scores are all >= 5, and then it is
\* exactly that remark; a sub-score of exactly 5 does not trigger its
\* improvement remark.
C5_Feedback ==
    (pc = "done" /\ result.nlp_called /\ result.kind = "return") =>
        LET r == result.value
            allGood == /\ AtLeast5(r.fluency)
                       /\ AtLeast5(r.grammar_score)
                       /\ AtLeast5(r.vocabulary_richness)
        IN  /\ r.feedback # ""
            /\ Contains(r.feedback, "Good job! Keep practicing to maintain your level.")
                  <=> allGood
            /\ allGood =>
                  r.feedback = "Good job! Keep practicing to maintain your level."
            /\ r.fluency = <<5, 1>> =>
                  ~Contains(r.feedback, "Try to speak more fluently with longer sentences.")
            /\ r.grammar_score = <<5, 1>> =>
                  ~Contains(r.feedback, "Focus on using varied sentence structures and grammar.")
            /\ r.vocabulary_richness = <<5, 1>> =>
                  ~Contains(r.feedback, "Try to use more diverse vocabulary and descriptive words.")

C5_Witness ==
    /\ pc = "done"
    /\ result.nlp_called
    /\ result.kind = "return"
    /\ AtLeast5(result.value.fluency)
    /\ AtLeast5(result.value.grammar_score)
    /\ result.value.vocabulary_richness = <<5, 1>>
    /\ result.value.feedback = "Good job! Keep practicing to maintain your level."

\* C6: every report returned carries word_count and sentence_count: the
\* number of alphabetic tokens and of sentences on the scored path, 0 on the
\* guard-clause path.
C6_CountsCarried ==
    (pc = "done" /\ result.kind = "return") =>
        /\ "word_count" \in DOMAIN result.value
        /\ "sentence_count" \in DOMAIN result.value
        /\ result.value.word_count =
              (IF result.nlp_called
               THEN Cardinality({i \in DOMAIN doc.tokens : doc.tokens[i].is_alpha})
               ELSE 0)
        /\ result.value.sentence_count =
              (IF result.nlp_called THEN Len(doc.sents) ELSE 0)

(***************************************************************************)
(* Claims about the transcriber and the window, checked under Spec.        *)
(***************************************************************************)
FailureSentinel(t) ==
    \/ t = "Could not understand the audio clearly. Please try speaking more clearly."
    \/ t = "Transcription service unavailable. Please check your internet connection."
    \/ StartsWith(t, "Error processing audio: ")

Count(seq, x) == Cardinality({i \in DOMAIN seq : seq[i] = x})

\* C2: whenever transcribe_audio returned a failure sentinel, the
\* analyze_transcription call that follows yields the all-zero report and
\* does not call the annotator.
C2_SentinelsNeverScored ==
    (last_analysis # None /\ FailureSentinel(last_analysis.input)) =>
        /\ last_analysis.ret.kind = "return"
        /\ ~last_analysis.ret.nlp_called
        /\ last_analysis.ret.value.fluency = Zero
        /\ last_analysis.ret.value.grammar_score = Zero
        /\ last_analysis.ret.value.vocabulary_richness = Zero
        /\ last_analysis.ret.value.total_score = Zero

\* C7: transcribe_audio returns and never raises; the offline recognizer is
\* invoked at most once, and only after the online recognizer failed with
\* RequestError; when no recognizer succeeded the result is a failure
\* sentinel.
C7_TranscribeFailsSoft ==
    last_transcribe # None =>
        LET o == last_transcribe
            called(f) == Count(o.ret.calls, f) > 0
            succeeded == \/ called("recognize_google") /\ o.google.kind = "ok"
                         \/ called("recognize_sphinx") /\ o.sphinx.kind = "ok"
        IN  /\ o.ret.kind = "return"
            /\ o.ret.value \in STRING
            /\ Count(o.ret.calls, "recognize_sphinx") <= 1
            /\ called("recognize_sphinx") =>
                  /\ o.file.kind = "ok"
                  /\ o.google.kind = "RequestError"
                  /\ o.ret.calls[Len(o.ret.calls)] = "recognize_sphinx"
                  /\ Count(o.ret.calls, "recognize_google") = 1
            /\ ~succeeded => FailureSentinel(o.ret.value)

C7_Witness ==
    /\ last_transcribe # None
    /\ last_transcribe.google.kind = "RequestError"
    /\ last_transcribe.sphinx.kind = "error"
    /\ Count(last_transcribe.ret.calls, "recognize_sphinx") = 1
    /\ last_transcribe.ret.value =
          "Transcription service unavailable. Please check your internet connection."

\* C8: no invocation of record_and_transcribe or play_transcription begins
\* while another one is in progress, so no playback reads
\* current_transcription while a record action is between its start and
\* the storing of its transcript.
C8_StrictlySequential ==
    /\ Len(stack) <= 1
    /\ ~ \E i, j \in DOMAIN stack :
            /\ i < j
            /\ stack[i].handler = "record"
            /\ stack[i].pc \in {"recording", "processing"}
            /\ stack[j].handler = "play"

\* C9: the record button is disabled exactly while a record_and_transcribe
\* invocation is in progress: it is disabled during the whole invocation and
\* enabled again once the invocation has ended, whatever its outcome.
C9_RecordButton ==
    (record_button = "disabled") <=>
        (\E i \in DOMAIN stack : stack[i].handler = "record")

\* a record action has ended through its except clause
C9_Witness ==
    /\ stack = <<>>
    /\ StartsWith(status_label.text, "Error: ")
    /\ record_button = "normal"

\* C10: text_to_speech is only invoked with the stored transcript, never
\* when that transcript is empty or starts with "Could not" or "Error", and
\* at most once per play action.
C10_SynthesisOnlyValid ==
    /\ last_tts # None =>
          /\ last_tts[1] # ""
          /\ ~StartsWith(last_tts[1], "Could not")
          /\ ~StartsWith(last_tts[1], "Error")
    /\ \A i \in DOMAIN stack : stack[i].tts_calls <= 1

====
